---- MODULE Spec2Model ----
(***************************************************************************)
(* State-machine model of the chat widget's streaming logic.               *)
(*                                                                         *)
(*   Spec   the useChat hook (src/src/hooks/use-chat.ts), "Variant A":     *)
(*          append / stop / clearMessages / handleSubmit /                 *)
(*          handleInputChange, the transport's progress notifications and  *)
(*          the settlement of each request.                                *)
(*   SpecB  the Chat component with the inline request                     *)
(*          (src/src/components/chat.tsx), "Variant B": newline-delimited  *)
(*          JSON records, last-record delta accumulation.                  *)
(*                                                                         *)
(* Text is a sequence of one-character strings, so that concatenation,     *)
(* splitting on "\n" and trimming are computed and not assumed.            *)
(***************************************************************************)
EXTENDS Integers, Sequences, FiniteSets, TLC

\* ------------------------------------------------------------------ bounds
\* Number of sends (append / handleSubmit calls) explored.
MaxReq == 2

Requests == 1..MaxReq

\* ------------------------------------------------------------- values
\* JavaScript undefined / null.
Undefined == "undefined"
Null == 0
\* progressEvent.event?.target is missing.
NoXhr == << "noxhr" >>
\* No onResponse call was made yet for a request.
NoTick == << "notick" >>
\* handleSubmit was given a form event, not a string.
FormEvent == << "event" >>

\* Raw response texts the transport may expose on a progress tick.
Payloads == { <<"H", "e">>, <<"H", "e", "l", "l", "o">> }

\* Failures (other than cancellation) the transport may reject with.
Errors == { "NetworkError" }

\* Strings the caller types into the draft or hands to handleSubmit.
Texts == { <<>>, <<" ">>, <<"h", "i">> }

\* Strings given to handleSubmit that hold line ends only.
BlankTexts == { << "\r", "\n" >> }

\* Strings the caller hands to append.
SendTexts == { <<"h", "i">> }

\* A caller-built ChatMessage handed to append.
CallerMessage == [id |-> <<"m", 0>>, role |-> "user", text |-> <<"y", "o">>]

VARIABLES
    messages,           \* useState<ChatMessage[]>        use-chat.ts:84
    input,              \* useState("")                    use-chat.ts:85
    isLoading,          \* useState(false)                 use-chat.ts:86
    error,              \* useState<Error | undefined>     use-chat.ts:87
    abortControllerRef, \* useRef<AbortController | null>  use-chat.ts:90
    nReq,               \* number of sends made so far
    status,             \* per send: where its request / its async body is
    viaSubmit,          \* per send: handleSubmit is awaiting this append
    onResponseArg,      \* per send: last argument given to onResponse
    onFinishCalls,      \* per send: arguments of its onFinish calls, in order
    onErrorCalls,       \* per send: arguments of its onError calls, in order
    cleared,            \* per send: clearMessages ran after it was issued
    repeated,           \* the step into this state was a progress notification
                        \* carrying the same response as the one before it
    closure,            \* the messages captured by the append of the last
                        \* render (useCallback deps)       use-chat.ts:216
    requestBody,        \* the body of the latest axios.post use-chat.ts:196
    inputClosure,       \* the input captured by the handleSubmit of the last
                        \* render (useCallback deps)       use-chat.ts:235
    edited,             \* setMessages was called since the last clearMessages
    \* Variant B (chat.tsx); messages is then the state of chat.tsx:46.
    stream,             \* per send: the response body the server will produce
    seen,               \* per send: length of the longest buffer delivered
    nTicks,             \* per send: progress notifications delivered
    errorSeen,          \* per send: a tick ended in a record of type "error"
    uncaught,           \* per send: errors thrown out of the progress listener
    logged              \* per send: what the catch of chat.tsx:111 received

renderVars == << closure, requestBody >>

hookVars == << input, isLoading, abortControllerRef, viaSubmit, onResponseArg,
              onFinishCalls, onErrorCalls, cleared, repeated, renderVars,
              inputClosure, edited >>

chatVars == << stream, seen, nTicks, errorSeen, uncaught, logged >>

vars == << messages, error, nReq, status, hookVars, chatVars >>

\* requestBody before any post was made.
NoBody == [messages |-> <<>>, chatInput |-> <<>>]

\* Mutant of UserId: the id given to a user message is not fresh.
UserId_NotFresh(r) == <<"u", 0>>

\* ------------------------------------------------------------- helpers
\* nanoid(): an id no other message carries.
UserId(r) == <<"u", r>>
AssistantId(r) == <<"a", r>>

\* use-chat.ts:140-145: the assistant placeholder of send r.
Placeholder(r) == [id |-> AssistantId(r), role |-> "assistant", text |-> <<>>]

\* use-chat.ts:125-133: the user message of send r.
UserMessage(r, message, isString) ==
    IF isString THEN [id |-> UserId(r), role |-> "user", text |-> message]
    ELSE message

\* Mutant of AppendPair: the placeholder is put before the user message.
AppendPair_AssistantFirst(prev, userMessage, assistantMessage) ==
    prev \o << assistantMessage, userMessage >>

\* use-chat.ts:148: [...prev, userMessage, assistantMessage].
AppendPair(prev, userMessage, assistantMessage) ==
    prev \o << userMessage, assistantMessage >>

\* Mutant of ReplaceText: the response is appended to the text, not written
\* over it.
ReplaceText_Concat(prev, id, response) ==
    [ i \in DOMAIN prev |->
        IF prev[i].id = id THEN [prev[i] EXCEPT !.text = @ \o response]
        ELSE prev[i] ]

\* Mutant of ReplaceText: the message is chosen by its role, not by its id.
ReplaceText_ByRole(prev, id, response) ==
    [i \in 1..Len(prev) |->
        IF prev[i].role = "assistant"
        THEN [prev[i] EXCEPT !.text = response]
        ELSE prev[i]]

\* use-chat.ts:175-181: prev.map(msg => msg.id === id ? {...msg, parts:[text]} : msg).
ReplaceText(prev, id, response) ==
    [ i \in DOMAIN prev |->
        IF prev[i].id = id THEN [prev[i] EXCEPT !.text = response] ELSE prev[i] ]

\* AbortController.abort() on the controller of send r: the pending post
\* rejects with a cancellation; an already settled request is unaffected.
Abort(st, r) ==
    IF st[r] = "pending" THEN [st EXCEPT ![r] = "cancelling"] ELSE st

\* The characters String.prototype.trim removes: the WhiteSpace and
\* LineTerminator code points of ECMAScript.  A character without an escape
\* of its own is written by its code point.
WhiteSpace ==
    { "\t", "\n", "U+000B", "\f", "\r", " ", "U+00A0", "U+1680",
      "U+2000", "U+2001", "U+2002", "U+2003", "U+2004", "U+2005", "U+2006",
      "U+2007", "U+2008", "U+2009", "U+200A", "U+2028", "U+2029", "U+202F",
      "U+205F", "U+3000", "U+FEFF" }

IsWhitespace(c) == c \in WhiteSpace

\* String.prototype.trim.
RECURSIVE TrimStart(_)
TrimStart(s) ==
    IF s # <<>> /\ IsWhitespace(Head(s)) THEN TrimStart(Tail(s)) ELSE s

RECURSIVE TrimEnd(_)
TrimEnd(s) ==
    IF s # <<>> /\ IsWhitespace(s[Len(s)]) THEN TrimEnd(SubSeq(s, 1, Len(s) - 1))
    ELSE s

Trim(s) == TrimEnd(TrimStart(s))


\* ------------------------------------------------------------- Variant A
Init ==
    /\ messages = <<>>
    /\ input = <<>>
    /\ isLoading = FALSE
    /\ error = Undefined
    /\ abortControllerRef = Null
    /\ nReq = 0
    /\ status = [r \in Requests |-> "idle"]
    /\ viaSubmit = [r \in Requests |-> FALSE]
    /\ onResponseArg = [r \in Requests |-> NoTick]
    /\ onFinishCalls = [r \in Requests |-> <<>>]
    /\ onErrorCalls = [r \in Requests |-> <<>>]
    /\ cleared = [r \in Requests |-> FALSE]
    /\ repeated = FALSE
    /\ closure = <<>>
    /\ requestBody = NoBody
    /\ inputClosure = <<>>
    /\ edited = FALSE
    /\ stream = [r \in Requests |-> <<>>]
    /\ seen = [r \in Requests |-> 0]
    /\ nTicks = [r \in Requests |-> 0]
    /\ errorSeen = [r \in Requests |-> FALSE]
    /\ uncaught = [r \in Requests |-> {}]
    /\ logged = [r \in Requests |-> <<>>]

\* The request of send r has settled and the finally of its append has run.
Settled(r) == status[r] \in { "finished", "failed", "cancelled" }

\* A handleSubmit whose append has returned is about to go on after its
\* await (use-chat.ts:232-233).  That continuation is a microtask: it runs
\* before the next event is handled, and only other continuations that are
\* already queued (the catch and finally of an aborted request) run before
\* it.
Resuming == \E r \in Requests : viaSubmit[r] /\ Settled(r)

\* use-chat.ts:110-116.
stop ==
    IF abortControllerRef # Null
    THEN /\ status' = Abort(status, abortControllerRef)
         /\ abortControllerRef' = Null
         /\ isLoading' = FALSE
    ELSE UNCHANGED << status, abortControllerRef, isLoading >>

Stop ==
    /\ ~Resuming
    /\ stop
    /\ repeated' = FALSE
    /\ UNCHANGED << messages, input, error, nReq, viaSubmit,
                    onResponseArg, onFinishCalls, onErrorCalls, cleared,
                    chatVars, renderVars, inputClosure, edited >>

\* use-chat.ts:122-196: append up to the await of axios.post.
append(message, isString, submitted) ==
    /\ ~Resuming
    /\ nReq < MaxReq
    /\ LET r == nReq + 1
           userMessage == UserMessage(r, message, isString)
       IN /\ isLoading' = TRUE
          /\ error' = Undefined
          /\ messages' = AppendPair(messages, userMessage, Placeholder(r))
          /\ input' = IF isString THEN <<>> ELSE input
          /\ abortControllerRef' = r
          /\ nReq' = r
          /\ status' = [status EXCEPT ![r] = "pending"]
          /\ viaSubmit' = [viaSubmit EXCEPT ![r] = submitted]
          /\ repeated' = FALSE
    /\ UNCHANGED << onResponseArg, onFinishCalls, onErrorCalls, cleared,
                    chatVars >>

Send ==
    \/ \E t \in SendTexts : append(t, TRUE, FALSE) /\ UNCHANGED << renderVars, inputClosure, edited >>
    \/ append(CallerMessage, FALSE, FALSE) /\ UNCHANGED << renderVars, inputClosure, edited >>

\* use-chat.ts:166-183: one progress notification of send r.  It is delivered
\* while the request is in flight, and a notification the transport had
\* already queued may still be delivered after the request was aborted.
OnDownloadProgress(r, xhr) ==
    /\ ~Resuming
    /\ status[r] \in { "pending", "cancelling", "cancelled" }
    /\ IF xhr # NoXhr
       THEN /\ onResponseArg' = [onResponseArg EXCEPT ![r] = xhr]
            /\ messages' = ReplaceText(messages, AssistantId(r), xhr)
       ELSE UNCHANGED << onResponseArg, messages >>
    /\ repeated' = (onResponseArg[r] = xhr)
    /\ UNCHANGED << input, isLoading, error, abortControllerRef, nReq, status,
                    viaSubmit, onFinishCalls, onErrorCalls, cleared,
                    chatVars, renderVars, inputClosure, edited >>

Progress == \E r \in Requests : \E xhr \in Payloads \cup { NoXhr } :
    OnDownloadProgress(r, xhr)

\* use-chat.ts:199: onFinish?.(assistantMessage).
FinishArgument(r) == Placeholder(r)

\* Mutant of Finally: the reference is not released.
Finally_KeepRef(r) ==
    /\ isLoading' = FALSE
    /\ abortControllerRef' = abortControllerRef
    /\ UNCHANGED << input, viaSubmit >>

\* use-chat.ts:211-214 (finally).  A handleSubmit awaiting this append goes
\* on in a later microtask (HandleSubmitResume).
Finally(r) ==
    /\ isLoading' = FALSE
    /\ abortControllerRef' = Null
    /\ UNCHANGED << input, viaSubmit >>

\* use-chat.ts:196-199, 211-214: the post resolved.
Resolve(r) ==
    /\ ~Resuming
    /\ status[r] = "pending"
    /\ status' = [status EXCEPT ![r] = "finished"]
    /\ onFinishCalls' = [onFinishCalls EXCEPT ![r] = Append(@, FinishArgument(r))]
    /\ Finally(r)
    /\ repeated' = FALSE
    /\ UNCHANGED << messages, error, nReq, onResponseArg,
                    onErrorCalls, cleared,
                    chatVars, renderVars, inputClosure, edited >>

\* Mutant of Reject: the failure rolls the placeholder of the send back.
Reject_Rollback(r, err) ==
    /\ ~Resuming
    /\ status[r] = "pending"
    /\ status' = [status EXCEPT ![r] = "failed"]
    /\ error' = err
    /\ onErrorCalls' = [onErrorCalls EXCEPT ![r] = Append(@, err)]
    /\ messages' = SelectSeq(messages, LAMBDA m : m.id # AssistantId(r))
    /\ Finally(r)
    /\ repeated' = FALSE
    /\ UNCHANGED << nReq, onResponseArg, onFinishCalls, cleared,
                    chatVars, renderVars, inputClosure, edited >>

\* use-chat.ts:200-214: the post rejected with a failure that is no cancel.
Reject(r, err) ==
    /\ ~Resuming
    /\ status[r] = "pending"
    /\ status' = [status EXCEPT ![r] = "failed"]
    /\ error' = err
    /\ onErrorCalls' = [onErrorCalls EXCEPT ![r] = Append(@, err)]
    /\ Finally(r)
    /\ repeated' = FALSE
    /\ UNCHANGED << messages, nReq, onResponseArg,
                    onFinishCalls, cleared,
                    chatVars, renderVars, inputClosure, edited >>

\* Mutant of Cancelled: the cancellation is handled like any other failure.
Cancelled_AsFailure(r) ==
    /\ status[r] = "cancelling"
    /\ status' = [status EXCEPT ![r] = "cancelled"]
    /\ error' = "CanceledError"
    /\ onErrorCalls' = [onErrorCalls EXCEPT ![r] = Append(@, "CanceledError")]
    /\ Finally(r)
    /\ repeated' = FALSE
    /\ UNCHANGED << messages, nReq, onResponseArg, onFinishCalls, cleared,
                    chatVars, renderVars, inputClosure, edited >>

\* use-chat.ts:200-202, 211-214: the post rejected with the cancellation.
Cancelled(r) ==
    /\ status[r] = "cancelling"
    /\ status' = [status EXCEPT ![r] = "cancelled"]
    /\ Finally(r)
    /\ repeated' = FALSE
    /\ UNCHANGED << messages, error, nReq, onResponseArg,
                    onFinishCalls, onErrorCalls, cleared,
                    chatVars, renderVars, inputClosure, edited >>

Settle == \E r \in Requests :
    \/ Resolve(r)
    \/ \E err \in Errors : Reject(r, err)
    \/ Cancelled(r)

\* use-chat.ts:241-246.
ClearMessages ==
    /\ ~Resuming
    /\ messages' = <<>>
    /\ input' = <<>>
    /\ error' = Undefined
    /\ stop
    /\ cleared' = [r \in Requests |-> r <= nReq]
    /\ edited' = FALSE
    /\ repeated' = FALSE
    /\ UNCHANGED << nReq, viaSubmit, onResponseArg, onFinishCalls,
                    onErrorCalls,
                    chatVars, renderVars, inputClosure >>

\* use-chat.ts:96-105.
HandleInputChange(e) ==
    /\ ~Resuming
    /\ input' = e
    /\ repeated' = FALSE
    /\ UNCHANGED << messages, isLoading, error, abortControllerRef, nReq,
                    status, viaSubmit, onResponseArg, onFinishCalls,
                    onErrorCalls, cleared,
                    chatVars, renderVars, inputClosure, edited >>

InputChange == \E e \in Texts : HandleInputChange(e)

\* use-chat.ts:223-236, up to the await: e is a string, or a form event
\* (FormEvent: the content is the input captured by the render that built
\* this handleSubmit, use-chat.ts:229 with the deps of use-chat.ts:235).
HandleSubmit(e) ==
    LET content == IF e # FormEvent THEN e ELSE inputClosure
    IN IF Trim(content) = <<>>
       THEN /\ ~Resuming
            /\ repeated' = FALSE
            /\ UNCHANGED << messages, input, isLoading, error,
                            abortControllerRef, nReq, status, viaSubmit,
                            onResponseArg, onFinishCalls, onErrorCalls, cleared,
                    chatVars, renderVars, inputClosure, edited >>
       ELSE append(content, TRUE, TRUE) /\ UNCHANGED << renderVars, inputClosure, edited >>

Submit == \E e \in Texts \cup BlankTexts \cup { FormEvent } : HandleSubmit(e)

\* use-chat.ts:232-233: the append awaited by handleSubmit has returned
\* (its request settled, or was cancelled); handleSubmit goes on with
\* setInput("").
HandleSubmitResume(r) ==
    /\ viaSubmit[r]
    /\ Settled(r)
    /\ input' = <<>>
    /\ viaSubmit' = [viaSubmit EXCEPT ![r] = FALSE]
    /\ repeated' = FALSE
    /\ UNCHANGED << messages, isLoading, error, abortControllerRef, nReq,
                    status, onResponseArg, onFinishCalls, onErrorCalls,
                    cleared, chatVars, renderVars, inputClosure, edited >>

Resume == \E r \in Requests : HandleSubmitResume(r)

\* The component renders again as far as handleSubmit is concerned:
\* useCallback builds a handleSubmit over the current input
\* (use-chat.ts:223, 229, 235).  The messages captured by append are followed
\* in SpecBody only, where the request body is observed.
RenderInput ==
    /\ ~Resuming
    /\ inputClosure # input
    /\ inputClosure' = input
    /\ repeated' = FALSE
    /\ UNCHANGED << messages, error, nReq, status, input, isLoading,
                    abortControllerRef, viaSubmit, onResponseArg,
                    onFinishCalls, onErrorCalls, cleared, edited,
                    chatVars, renderVars >>

\* The state setters the hook returns as they are (use-chat.ts:250, 252).
\* Each takes a value or an updater function of the previous value.
InputUpdaters == { "trim" }
MessagesUpdaters == { "users" }

\* "trim": prev => prev.trim()
ApplyInputUpdater(f, prev) == IF f = "trim" THEN Trim(prev) ELSE prev

\* "users": prev => prev.filter(m => m.role === "user")
ApplyMessagesUpdater(f, prev) ==
    IF f = "users" THEN SelectSeq(prev, LAMBDA m : m.role = "user") ELSE prev

\* use-chat.ts:85, 252: setInput(next).
SetInput(next) ==
    /\ ~Resuming
    /\ input' = next
    /\ repeated' = FALSE
    /\ UNCHANGED << messages, isLoading, error, abortControllerRef, nReq,
                    status, viaSubmit, onResponseArg, onFinishCalls,
                    onErrorCalls, cleared,
                    chatVars, renderVars, inputClosure, edited >>

\* use-chat.ts:84, 250: setMessages(next).
SetMessages(next) ==
    /\ ~Resuming
    /\ messages' = next
    /\ edited' = TRUE
    /\ repeated' = FALSE
    /\ UNCHANGED << input, isLoading, error, abortControllerRef, nReq,
                    status, viaSubmit, onResponseArg, onFinishCalls,
                    onErrorCalls, cleared,
                    chatVars, renderVars, inputClosure >>

Setters ==
    \/ \E v \in Texts : SetInput(v)
    \/ \E f \in InputUpdaters : SetInput(ApplyInputUpdater(f, input))
    \/ SetMessages(<<>>)
    \/ \E f \in MessagesUpdaters : SetMessages(ApplyMessagesUpdater(f, messages))

Next ==
    \/ Send
    \/ Submit
    \/ Resume
    \/ InputChange
    \/ Progress
    \/ Settle
    \/ Stop
    \/ ClearMessages
    \/ RenderInput
    \/ Setters

Spec == Init /\ [][Next]_vars

\* The hook under a transport that settles every request it was given, and a
\* runtime that runs the continuation of every settled post: a request in
\* flight is eventually resolved or rejected unless it is aborted first, and
\* the catch and finally of an aborted request eventually run.
Fairness ==
    \A r \in Requests :
        /\ WF_vars(Resolve(r) \/ \E err \in Errors : Reject(r, err))
        /\ WF_vars(Cancelled(r))

\* The operations the quiescence of the hook depends on: sends, progress
\* notifications, settlements, stop and clearMessages.
NextQuiesce ==
    \/ Send
    \/ Progress
    \/ Settle
    \/ Stop
    \/ ClearMessages

FairSpec == Init /\ [][NextQuiesce]_vars /\ Fairness

\* ------------------------------------------- Variant A, the request body
\* The hook with its renders made explicit.  append is memoised with
\* messages among its dependencies (use-chat.ts:216): the caller holds the
\* append of the last render, and that append reads the messages of that
\* render.  No body function is configured and the static body is empty.

\* use-chat.ts:187-194: { messages: [...messages, userMessage],
\*                         chatInput: userMessage.parts[0].text, ...body }.
RequestBody(history, userMessage) ==
    [messages |-> Append(history, userMessage), chatInput |-> userMessage.text]

\* use-chat.ts:122-196 with the body given to axios.post.
appendBody(message, isString) ==
    /\ append(message, isString, FALSE)
    /\ requestBody' =
           RequestBody(closure, UserMessage(nReq + 1, message, isString))
    /\ UNCHANGED << closure, inputClosure, edited >>

SendBody ==
    \/ \E t \in SendTexts : appendBody(t, TRUE)
    \/ appendBody(CallerMessage, FALSE)

\* The component renders again: useCallback builds an append over the
\* current messages (use-chat.ts:84, 122, 216).
Render ==
    /\ ~Resuming
    /\ closure # messages \/ inputClosure # input
    /\ closure' = messages
    /\ inputClosure' = input
    /\ UNCHANGED << messages, error, nReq, status, input, isLoading,
                    abortControllerRef, viaSubmit, onResponseArg,
                    onFinishCalls, onErrorCalls, cleared, repeated,
                    requestBody, edited, chatVars >>

NextBody ==
    \/ SendBody
    \/ Render
    \/ Progress
    \/ Settle
    \/ Stop
    \/ ClearMessages

SpecBody == Init /\ [][NextBody]_vars

\* ------------------------------------------------------------- Variant B
\* Sends made through Chat.handleSubmit, and progress notifications
\* delivered per request.
MaxChatReq == 2
MaxTicks == 3

ChatRequests == 1..MaxChatReq

\* The response body is a sequence of characters; a whole JSON record is kept
\* as one symbol, "\n" separates lines, and Fragment is text that is no JSON.
Newline == [sym |-> "\n", type |-> "", content |-> <<>>]
Fragment == [sym |-> "{", type |-> "", content |-> <<>>]
Record(type, content) == [sym |-> "json", type |-> type, content |-> content]

Hi == <<"H", "i">>
There == <<" ", "t", "h", "e", "r", "e">>

\* Response bodies the webhook may stream.
Streams ==
    { << Record("begin", <<>>), Newline, Record("item", Hi), Newline,
         Record("item", There), Newline, Record("end", <<>>), Newline >>,
      << Record("item", Hi), Newline, Newline, Record("error", <<"b">>), Newline,
         Record("item", There), Newline >>,
      << Record("item", Hi), Newline, Fragment >> }

\* chat.tsx:76: response.split("\n"): the pieces between the separators, the
\* empty ones included.
RECURSIVE Split(_, _)
Split(buffer, piece) ==
    IF buffer = <<>> THEN << piece >>
    ELSE IF Head(buffer) = Newline
         THEN << piece >> \o Split(Tail(buffer), <<>>)
         ELSE Split(Tail(buffer), Append(piece, Head(buffer)))

\* chat.tsx:76: .filter(Boolean): an empty string is falsy.
RECURSIVE FilterBoolean(_)
FilterBoolean(lines) ==
    IF lines = <<>> THEN <<>>
    ELSE IF Head(lines) = <<>> THEN FilterBoolean(Tail(lines))
         ELSE << Head(lines) >> \o FilterBoolean(Tail(lines))

Lines(response) == FilterBoolean(Split(response, <<>>))

\* chat.tsx:78: JSON.parse(line) returns a value for exactly one JSON text and
\* throws a SyntaxError for anything else.
ParseOk(line) == Len(line) = 1 /\ line[1].sym = "json"
JSONParse(line) == [type |-> line[1].type, content |-> line[1].content]

\* chat.tsx:105: JSON.stringify(lastResponse).
JSONStringify(rec) == << "{", rec.type, rec.content, "}" >>

SyntaxError == << "SyntaxError" >>

\* chat.tsx:95-96: msg.parts[0].text + lastResponse?.content || "".
AddContent(text, content) ==
    LET sum == text \o content IN IF sum = <<>> THEN <<>> ELSE sum

\* chat.tsx:87-102: prev.map(msg => msg.id === id ? {...msg, text + content} : msg).
AppendText(prev, id, content) ==
    [ i \in DOMAIN prev |->
        IF prev[i].id = id THEN [prev[i] EXCEPT !.text = AddContent(@, content)]
        ELSE prev[i] ]

InitB ==
    /\ messages = <<>>
    /\ input = <<>>
    /\ isLoading = FALSE
    /\ error = Undefined
    /\ abortControllerRef = Null
    /\ nReq = 0
    /\ status = [r \in ChatRequests |-> "idle"]
    /\ viaSubmit = [r \in ChatRequests |-> FALSE]
    /\ onResponseArg = [r \in ChatRequests |-> NoTick]
    /\ onFinishCalls = [r \in ChatRequests |-> <<>>]
    /\ onErrorCalls = [r \in ChatRequests |-> <<>>]
    /\ cleared = [r \in ChatRequests |-> FALSE]
    /\ repeated = FALSE
    /\ closure = <<>>
    /\ requestBody = NoBody
    /\ inputClosure = <<>>
    /\ edited = FALSE
    /\ stream = [r \in ChatRequests |-> <<>>]
    /\ seen = [r \in ChatRequests |-> 0]
    /\ nTicks = [r \in ChatRequests |-> 0]
    /\ errorSeen = [r \in ChatRequests |-> FALSE]
    /\ uncaught = [r \in ChatRequests |-> {}]
    /\ logged = [r \in ChatRequests |-> <<>>]

\* chat.tsx:48-70: Chat.handleSubmit up to the await of axios.post; body is
\* the response the server is going to stream for this request.
ChatSubmit(text, body) ==
    /\ nReq < MaxChatReq
    /\ LET r == nReq + 1
       IN /\ messages' = AppendPair(messages,
                              [id |-> UserId(r), role |-> "user", text |-> text],
                              Placeholder(r))
          /\ nReq' = r
          /\ stream' = [stream EXCEPT ![r] = body]
          /\ status' = [status EXCEPT ![r] = "pending"]
    /\ UNCHANGED << error, hookVars, seen, nTicks, errorSeen, uncaught, logged >>

\* An exception leaves the progress callback (chat.tsx:78, chat.tsx:105).  The
\* callback runs inside the transport: either the exception ends there (the
\* event listener's exception is reported and the exchange goes on), or the
\* transport fails the exchange with it and the catch of chat.tsx:111 logs it.
Throw(r, err) ==
    \/ /\ uncaught' = [uncaught EXCEPT ![r] = @ \cup { err }]
       /\ UNCHANGED << status, logged >>
    \/ /\ status' = [status EXCEPT ![r] = "failed"]
       /\ logged' = [logged EXCEPT ![r] = Append(@, err)]
       /\ UNCHANGED uncaught

\* chat.tsx:72-108: one progress notification of request r, the response
\* text being the first k characters of the body.
ChatProgress(r, k) ==
    /\ status[r] = "pending"
    /\ nTicks[r] < MaxTicks
    /\ k \in seen[r]..Len(stream[r])
    /\ nTicks' = [nTicks EXCEPT ![r] = @ + 1]
    /\ seen' = [seen EXCEPT ![r] = k]
    /\ LET response == SubSeq(stream[r], 1, k)
           lines == Lines(response)
       IN IF \E i \in 1..Len(lines) : ~ParseOk(lines[i])
          THEN /\ Throw(r, SyntaxError)
               /\ UNCHANGED << messages, errorSeen >>
          ELSE LET parsed == [i \in 1..Len(lines) |-> JSONParse(lines[i])]
                   lastResponse == IF parsed = <<>> THEN [type |-> Undefined, content |-> <<>>]
                                   ELSE parsed[Len(parsed)]
               IN /\ messages' = IF lastResponse.type = "item"
                                 THEN AppendText(messages, AssistantId(r),
                                                 lastResponse.content)
                                 ELSE messages
                  /\ IF lastResponse.type = "error"
                     THEN /\ Throw(r, JSONStringify(lastResponse))
                          /\ errorSeen' = [errorSeen EXCEPT ![r] = TRUE]
                     ELSE UNCHANGED << status, uncaught, logged, errorSeen >>
    /\ UNCHANGED << error, nReq, hookVars, stream >>

\* chat.tsx:72-74: the progress event carries no XMLHttpRequest.
ChatProgressNoXhr(r) ==
    /\ status[r] = "pending"
    /\ nTicks[r] < MaxTicks
    /\ nTicks' = [nTicks EXCEPT ![r] = @ + 1]
    /\ UNCHANGED << messages, error, nReq, status, hookVars, stream, seen,
                    errorSeen, uncaught, logged >>

\* chat.tsx:65-110: the post resolved.
ChatResolve(r) ==
    /\ status[r] = "pending"
    /\ status' = [status EXCEPT ![r] = "finished"]
    /\ UNCHANGED << messages, error, nReq, hookVars, chatVars >>

\* chat.tsx:111-113: the post rejected; the error is logged.
ChatReject(r, err) ==
    /\ status[r] = "pending"
    /\ status' = [status EXCEPT ![r] = "failed"]
    /\ logged' = [logged EXCEPT ![r] = Append(@, << err >>)]
    /\ UNCHANGED << messages, error, nReq, hookVars, stream, seen, nTicks,
                    errorSeen, uncaught >>

NextB ==
    \/ \E body \in Streams : ChatSubmit(<<"h", "i">>, body)
    \/ \E r \in ChatRequests : \E k \in 0..Len(stream[r]) : ChatProgress(r, k)
    \/ \E r \in ChatRequests : ChatProgressNoXhr(r)
    \/ \E r \in ChatRequests : ChatResolve(r)
    \/ \E r \in ChatRequests : \E err \in Errors : ChatReject(r, err)

SpecB == InitB /\ [][NextB]_vars

\* ===================================================== claims, Variant A
Issued(r) == status[r] # "idle"

\* Sends whose messages clearMessages has not removed.
Kept == { r \in Requests : Issued(r) /\ ~cleared[r] }

\* The last value that went through the updater for send r ("" if none).
FinalText(r) == IF onResponseArg[r] = NoTick THEN <<>> ELSE onResponseArg[r]

\* messages[i], messages[i+1] are the user message and the placeholder of r.
TurnAt(i, r) ==
    /\ i + 1 <= Len(messages)
    /\ messages[i].role = "user"
    /\ messages[i].id = UserId(r) \/ messages[i] = CallerMessage
    /\ messages[i + 1].id = AssistantId(r)
    /\ messages[i + 1].role = "assistant"

\* C1: every send adds exactly two messages, the user message immediately
\* followed by its assistant placeholder (also when sends overlap), and once
\* its request has completed successfully the placeholder's text is the raw
\* payload of the last progress tick of that request, empty if there was
\* none.  (clearMessages removes the messages of the sends made before it;
\* messages the caller has rewritten with setMessages are left aside.)
C1_SuccessfulSend ==
    ~edited =>
        /\ Len(messages) = 2 * Cardinality(Kept)
        /\ \A r \in Kept : \E i \in 1..Len(messages) :
              /\ TurnAt(i, r)
              /\ status[r] = "finished" => messages[i + 1].text = FinalText(r)

\* C1 witness: a send completed after a tick while a later send, which has
\* received a tick of its own, is still in flight.
C1_Witness ==
    /\ status[1] = "finished" /\ onResponseArg[1] = <<"H", "e", "l", "l", "o">>
    /\ status[2] = "pending" /\ onResponseArg[2] = <<"H", "e">>
    /\ Len(messages) = 4
    /\ ~edited

\* C2: on successful completion onFinish is called exactly once, with the
\* assistant message carrying the text the last progress tick wrote.
C2_FinishArgument ==
    \A r \in Requests : status[r] = "finished" =>
        /\ Len(onFinishCalls[r]) = 1
        /\ onFinishCalls[r][1] =
               [id |-> AssistantId(r), role |-> "assistant", text |-> FinalText(r)]

\* C3: a progress notification of a request that stop() has cancelled,
\* delivered after the cancellation, changes nothing in messages.
C3_LateTickDropped ==
    [][ \A r \in Requests : \A xhr \in Payloads :
          (status[r] \in { "cancelling", "cancelled" } /\ OnDownloadProgress(r, xhr))
              => messages' = messages ]_vars

\* C4: stop() with an in-flight request behind the reference leaves isLoading
\* false, and the settlement of that request as cancelled neither sets error
\* nor calls onError.
C4_QuietCancel ==
    [][ /\ (Stop /\ abortControllerRef # Null) =>
              (~isLoading' /\ status'[abortControllerRef] = "cancelling")
        /\ \A r \in Requests : Cancelled(r) =>
              (error' = error /\ onErrorCalls' = onErrorCalls) ]_vars

\* C4 witness: a stopped request has settled as cancelled, no error is set
\* and onError was never called.
C4_Witness ==
    \E r \in Requests :
        /\ status[r] = "cancelled"
        /\ onResponseArg[r] # NoTick
        /\ error = Undefined
        /\ ~isLoading
        /\ \A q \in Requests : onErrorCalls[q] = <<>>

\* C5: while some request is neither completed, failed nor aborted,
\* isLoading is true.
C5_LoadingWhileInFlight ==
    (\E r \in Requests : status[r] = "pending") => isLoading

\* C6: clearMessages called while a send is in flight leaves messages and
\* input empty, error unset, isLoading false and no request in flight.
C6_ClearAborts ==
    [][ (ClearMessages /\ \E r \in Requests : status[r] = "pending") =>
            /\ messages' = <<>>
            /\ input' = <<>>
            /\ error' = Undefined
            /\ ~isLoading'
            /\ \A r \in Requests : status'[r] # "pending" ]_vars

\* C7: from clearMessages until the next send, messages stays empty, error
\* stays unset and isLoading stays false, whatever the earlier requests do.
C7_QuietAfterClear ==
    (nReq > 0 /\ \A r \in 1..nReq : cleared[r]) =>
        (messages = <<>> /\ error = Undefined /\ ~isLoading)

\* C8: a progress tick leaves the placeholder's text equal to the tick's raw
\* payload (overwrite, never concatenation), and a tick that repeats the
\* previous payload of its request leaves messages as they were.
C8_Overwrite ==
    [][ \A r \in Requests : \A xhr \in Payloads :
          (onResponseArg'[r] = xhr /\ OnDownloadProgress(r, xhr)) =>
              /\ Len(messages') = Len(messages)
              /\ \A i \in 1..Len(messages') :
                    messages'[i].id = AssistantId(r) => messages'[i].text = xhr
              /\ onResponseArg[r] = xhr => messages' = messages ]_vars

\* C8 witness: the same payload was delivered twice in a row to a placeholder
\* that is in messages.
C8_Witness ==
    /\ repeated
    /\ \E r \in Requests : \E i \in 1..Len(messages) :
          /\ messages[i].id = AssistantId(r)
          /\ messages[i].text = <<"H", "e", "l", "l", "o">>
          /\ onResponseArg[r] = messages[i].text

\* C11: when the request of a send settles with a failure that is no
\* cancellation, error is that failure, onError has been called exactly once
\* for the send, with that failure, isLoading is false, messages is exactly
\* what it was (the placeholder keeps the text streamed so far), and a
\* handleSubmit awaiting the append goes on after its await.
C11_FailureRecorded ==
    [][ \A r \in Requests : \A err \in Errors :
          Reject(r, err) =>
              /\ error' = err
              /\ onErrorCalls'[r] = << err >>
              /\ ~isLoading'
              /\ messages' = messages
              /\ status'[r] = "failed"
              /\ viaSubmit[r] => Resuming' ]_vars

\* C11 witness: a send failed after a tick had written partial text; the
\* placeholder still holds that text, error is set and onError ran once.
C11_Witness ==
    \E r \in Requests : \E i \in 1..Len(messages) :
        /\ status[r] = "failed"
        /\ error = "NetworkError"
        /\ onErrorCalls[r] = << "NetworkError" >>
        /\ ~isLoading
        /\ messages[i].id = AssistantId(r)
        /\ messages[i].text = <<"H", "e">>

\* The content named by a submission e is empty or whitespace only: e itself
\* when it is a string, the current value of input when e is a form event.
Blank(e) == Trim(IF e # FormEvent THEN e ELSE input) = <<>>

\* C12: handleSubmit with content that is empty or whitespace only, taken
\* from the string argument or from the current input, makes no send and
\* issues no request, and leaves messages, input, isLoading, error and the
\* handle reference unchanged.  The code reads the input captured by the last
\* render instead: with a blank draft typed since that render over a
\* non-blank captured one, handleSubmit of a form event sends the old text.
C12_BlankSubmit ==
    [][ \A e \in Texts \cup BlankTexts \cup { FormEvent } :
          (Blank(e) /\ HandleSubmit(e)) =>
              UNCHANGED << messages, input, isLoading, error,
                           abortControllerRef, nReq, status, viaSubmit >> ]_vars

\* C13: with no body function configured, the body a send posts holds under
\* messages the conversation as it stands immediately before the send
\* (every message added by earlier sends, also those made since the last
\* render or still in flight) followed by the new user message, and under
\* chatInput the text of the user message.
C13_FullHistory ==
    [][ /\ \A t \in SendTexts :
              appendBody(t, TRUE) =>
                  requestBody' =
                      [messages |-> Append(messages, UserMessage(nReq + 1, t, TRUE)),
                       chatInput |-> t]
        /\ appendBody(CallerMessage, FALSE) =>
              requestBody' =
                  [messages |-> Append(messages, CallerMessage),
                   chatInput |-> CallerMessage.text] ]_vars

\* C14: the settlement of one request never clears the reference while it
\* holds the controller of another request that is still in flight; hence
\* stop() called while the most recent request is in flight aborts that
\* request and leaves isLoading false.
C14_HandleExclusive ==
    [][ /\ \A r \in Requests :
              (Resolve(r) \/ (\E err \in Errors : Reject(r, err)) \/ Cancelled(r)) =>
                  ((/\ abortControllerRef # Null
                    /\ abortControllerRef # r
                    /\ status[abortControllerRef] = "pending")
                       => abortControllerRef' = abortControllerRef)
        /\ (Stop /\ nReq > 0 /\ status[nReq] = "pending") =>
              (status'[nReq] = "cancelling" /\ ~isLoading') ]_vars

\* The index of the most recent assistant message of msgs (0 if none).
LastAssistant(msgs) ==
    LET idx == { i \in 1..Len(msgs) : msgs[i].role = "assistant" }
    IN IF idx = {} THEN 0 ELSE CHOOSE i \in idx : \A j \in idx : j <= i

\* C15: apart from clearMessages (and from the setters the caller may use
\* directly), every change of messages either appends a
\* user message followed by an assistant placeholder at the end, or replaces
\* the text of the most recent assistant message; no other message is
\* modified, removed or reordered, also when sends overlap.
C15_AppendOnly ==
    [][ (messages' # messages /\ ~ClearMessages /\ ~Setters) =>
          \/ /\ Len(messages') = Len(messages) + 2
             /\ SubSeq(messages', 1, Len(messages)) = messages
             /\ messages'[Len(messages) + 1].role = "user"
             /\ messages'[Len(messages) + 2].role = "assistant"
             /\ messages'[Len(messages) + 2].text = <<>>
          \/ /\ Len(messages') = Len(messages)
             /\ \A i \in 1..Len(messages) :
                   messages'[i] # messages[i] =>
                       /\ i = LastAssistant(messages)
                       /\ messages'[i].id = messages[i].id
                       /\ messages'[i].role = messages[i].role ]_vars

\* C16: a progress tick of a request changes at most the text of the message
\* whose id is the request's placeholder id: every other message, the length
\* and order of messages and the id and role of the placeholder are
\* unchanged; when no message has that id (after clearMessages) the tick
\* leaves messages unchanged.  (A tick that leaves messages as it was
\* satisfies all of this, so the ticks that change messages are examined.)
C16_TickFrame ==
    [][ \A r \in Requests : \A xhr \in Payloads \cup { NoXhr } :
          (messages' # messages /\ OnDownloadProgress(r, xhr)) =>
              /\ Len(messages') = Len(messages)
              /\ \A i \in 1..Len(messages) :
                    /\ messages'[i].id = messages[i].id
                    /\ messages'[i].role = messages[i].role
                    /\ messages[i].id # AssistantId(r) => messages'[i] = messages[i]
              /\ (\A i \in 1..Len(messages) : messages[i].id # AssistantId(r))
                    => messages' = messages ]_vars

\* C16 witness: a tick has written the placeholder of one send while the
\* messages of another send, in flight and without a tick so far, and a
\* message object given by the caller stand next to it untouched.
C16_Witness ==
    /\ Len(messages) = 4
    /\ messages[1] = CallerMessage
    /\ messages[2] = [Placeholder(1) EXCEPT !.text = <<"H", "e", "l", "l", "o">>]
    /\ messages[4] = Placeholder(2)
    /\ status[2] = "pending" /\ onResponseArg[2] = NoTick

\* C17: the settlement of a request (success, failure or cancellation)
\* leaves input unchanged: a draft typed while a request submitted through
\* handleSubmit is in flight is still in input after the request has settled
\* and the handleSubmit awaiting it has gone on.
C17_DraftKept ==
    [][ \A r \in Requests :
          (\/ Resolve(r)
           \/ \E err \in Errors : Reject(r, err)
           \/ Cancelled(r)
           \/ HandleSubmitResume(r))
              => input' = input ]_vars

\* Every request issued so far has settled and its finally has run.
Quiescent ==
    \A r \in Requests : status[r] \in { "idle", "finished", "failed", "cancelled" }

\* C18: in every state in which every issued request has settled and its
\* completion handler has run, isLoading is false and the reference is null,
\* whatever the interleaving of sends, stops, clears and settlements; and when
\* the transport settles every request, such a state is reached again and
\* again, in particular after the last send.
C18_Quiescence ==
    /\ [](Quiescent => (~isLoading /\ abortControllerRef = Null))
    /\ []<>(Quiescent /\ ~isLoading /\ abortControllerRef = Null)

\* C18 witness: two overlapping sends, the later one stopped and the earlier
\* one failed, have both run their finally.
C18_Witness ==
    /\ Quiescent
    /\ status[1] = "failed" /\ status[2] = "cancelled"
    /\ ~isLoading /\ abortControllerRef = Null

\* C19: when every message in messages comes from a send of a string (no
\* message object given by the caller, no setMessages), messages has even
\* length and is made
\* of consecutive pairs, the user message of a send immediately followed by
\* the assistant message of the same send, and all ids are pairwise
\* distinct; under any interleaving of overlapping sends, stop, clear and
\* failures.
C19_Pairs ==
    (~edited /\ \A i \in 1..Len(messages) : messages[i] # CallerMessage) =>
        /\ Len(messages) % 2 = 0
        /\ \A k \in 1..(Len(messages) \div 2) : \E r \in Requests :
              /\ messages[2 * k - 1].role = "user"
              /\ messages[2 * k - 1].id = UserId(r)
              /\ messages[2 * k].role = "assistant"
              /\ messages[2 * k].id = AssistantId(r)
        /\ \A i, j \in 1..Len(messages) :
              i # j => messages[i].id # messages[j].id

\* C19 witness: two overlapping sends of strings, the earlier one failed and
\* the later one stopped, both with streamed text.
C19_Witness ==
    /\ ~edited
    /\ Len(messages) = 4
    /\ messages[1].id = UserId(1) /\ messages[3].id = UserId(2)
    /\ status[1] = "failed" /\ status[2] = "cancelled"
    /\ messages[2].text # <<>> /\ messages[4].text # <<>>

\* ===================================================== claims, Variant B
\* Every line of the body is one JSON record, none of them an error event.
WellFormed(body) ==
    \A i \in 1..Len(Lines(body)) :
        ParseOk(Lines(body)[i]) /\ JSONParse(Lines(body)[i]).type # "error"

\* The contents of the records of type "item", concatenated in order.
RECURSIVE ItemsText(_)
ItemsText(lines) ==
    IF lines = <<>> THEN <<>>
    ELSE (IF JSONParse(Head(lines)).type = "item"
          THEN JSONParse(Head(lines)).content ELSE <<>>)
         \o ItemsText(Tail(lines))

\* C9: when the ticks of a request carried growing prefixes of a stream of
\* well-formed records (here: with no error event among them), the placeholder's final text is the concatenation, in
\* stream order, of the content of every item record the ticks delivered,
\* each counted once, whatever number of lines a tick adds and also when a
\* tick repeats the previous buffer.
C9_DeltaOnce ==
    \A r \in ChatRequests :
        (status[r] = "finished" /\ WellFormed(stream[r])) =>
            \A i \in 1..Len(messages) :
                messages[i].id = AssistantId(r) =>
                    messages[i].text =
                        ItemsText(Lines(SubSeq(stream[r], 1, seen[r])))

\* C10: a tick whose last record has type "error" sets error, and from that
\* tick on the request adds no text to its placeholder.
C10_ErrorEvent ==
    [][ \A r \in ChatRequests :
          /\ errorSeen'[r] => error' # Undefined
          /\ errorSeen[r] =>
                \A i \in 1..Len(messages) :
                    messages[i].id = AssistantId(r) =>
                        messages'[i].text = messages[i].text ]_vars

====
